---- MODULE Spec2Model ----
(***************************************************************************)
(* Model of abaqus-inp-extract: the INP tokenizer (scripts/parse.py), the  *)
(* dependency resolver and serializer (scripts/extractor.py), the cache    *)
(* front end (scripts/extract.py) and the batch driver (batch.py).         *)
(*                                                                         *)
(* Text is modelled one level above characters.  A line of the file is a   *)
(* record [t, kw, opts, f]:                                                *)
(*   t = "kw"      a line starting with one '*': kw is the keyword text as *)
(*                 written, opts the Key=Value tokens as written           *)
(*   t = "data"    any other non-blank line: f its comma separated fields  *)
(*   t = "comment" a line starting with '**' (kw carries its text)         *)
(*   t = "blank"   an empty line                                           *)
(* str.lower, int() and str.isdigit are modelled by tables over the        *)
(* strings that occur in the documents of the model.                       *)
(***************************************************************************)
EXTENDS Integers, Sequences, FiniteSets, TLC

VARIABLES source,         \* the lines of the source document
          pc,             \* position of the run: "start", "parsed", "done"
          parsed_data,    \* the ParsedDocument (result of parse_inp_file)
          target_elsets,  \* the requested group names of the extraction
          closure,        \* the locals of extract_complete_model at line 173
          output,         \* the lines written to the output file
          source_mtime,   \* modification time of the source document
          cache,          \* the cache artifact source + '.cache.pkl'
          clock,          \* file system time
          run,            \* outcome of the last run of extract.main
          systems,        \* batch: the SYSTEMS configuration
          bidx,           \* batch: index of the next entry of the loop
          attempts,       \* batch: the entries subprocess.run was called for
          reports,        \* batch: what was printed for each entry
          bpc             \* batch: "loop", "done"

vars == <<source, pc, parsed_data, target_elsets, closure, output,
          source_mtime, cache, clock, run, systems, bidx, attempts, reports, bpc>>

extractVars == <<source, pc, parsed_data, target_elsets, closure, output>>
cacheVars   == <<source_mtime, cache, clock, run>>
batchVars   == <<systems, bidx, attempts, reports, bpc>>

-----------------------------------------------------------------------------
(* Bounds *)

MaxBlocks == 8      \* blocks in a source document
MaxTargets == 2     \* requested group names in one extraction
MaxClock == 2       \* ticks of the file system clock
MaxEntries == 3     \* entries of the batch configuration
MaxLines == 4       \* lines of a source document given line by line

-----------------------------------------------------------------------------
(* Generic helpers *)

Range(s) == {s[i] : i \in 1..Len(s)}

RECURSIVE Flatten(_)
Flatten(ss) == IF ss = <<>> THEN <<>> ELSE Head(ss) \o Flatten(Tail(ss))

Prefix(s, n) == SubSeq(s, 1, IF Len(s) < n THEN Len(s) ELSE n)

Reverse(s) == [i \in 1..Len(s) |-> s[Len(s) + 1 - i]]

(* Python dict: insertion ordered; assigning an existing key replaces the  *)
(* value and keeps the key's position.  Modelled as a sequence of <<k,v>>. *)
DictKeys(d) == {d[i][1] : i \in 1..Len(d)}
DictHas(d, k) == k \in DictKeys(d)
DictGet(d, k) == d[CHOOSE i \in 1..Len(d) : d[i][1] = k][2]
DictSet(d, k, v) ==
    IF DictHas(d, k)
    THEN [i \in 1..Len(d) |-> IF d[i][1] = k THEN <<k, v>> ELSE d[i]]
    ELSE Append(d, <<k, v>>)

(* options.get(key, '') *)
OptGet(options, k) == IF DictHas(options, k) THEN DictGet(options, k) ELSE ""

-----------------------------------------------------------------------------
(* String conversions *)

(* str.lower() *)
Lower(s) ==
    CASE s = "Node" -> "node"            [] s = "NODE" -> "node"
      [] s = "HEADING" -> "heading"
      [] s = "Element" -> "element"      [] s = "Nset" -> "nset"
      [] s = "Elset" -> "elset"          [] s = "Tie" -> "tie"
      [] s = "Coupling" -> "coupling"    [] s = "Material" -> "material"
      [] s = "Elastic" -> "elastic"
      [] s = "Connector Section" -> "connector section"
      [] s = "Connector Behavior" -> "connector behavior"
      [] s = "Type" -> "type"            [] s = "Name" -> "name"
      [] s = "Tie Nset" -> "tie nset"    [] s = "Ref Node" -> "ref node"
      [] s = "Behavior" -> "behavior"
      [] s = "WHEEL" -> "wheel"          [] s = "Wheel" -> "wheel"
      [] s = "HUB" -> "hub"              [] s = "Hub" -> "hub"
      [] s = "NOPE" -> "nope"
      [] s = "A" -> "a"                  [] s = "B" -> "b"
      [] s = "STEEL" -> "steel"          [] s = "Steel" -> "steel"
      [] s = "BEH" -> "beh"              [] s = "C3D8" -> "c3d8"
      [] OTHER -> s

(* int(s.strip()): the set holding the value, empty when int() raises      *)
(* ValueError.  int() accepts a sign and leading zeros.                    *)
IntOf(s) ==
    CASE s = "1" -> {1}   [] s = "2" -> {2}   [] s = "3" -> {3}
      [] s = "5" -> {5}   [] s = "6" -> {6}   [] s = "7" -> {7}
      [] s = "9" -> {9}   [] s = "0" -> {0}
      [] s = "05" -> {5}  [] s = "+6" -> {6}  [] s = "-1" -> {-1}
      [] OTHER -> {}

(* s.strip().isdigit(): digits only, so no sign *)
IsDigit(s) == s \in {"0", "1", "2", "3", "5", "6", "7", "9", "05"}

-----------------------------------------------------------------------------
(* Lines *)

K(kw, opts) == [t |-> "kw", kw |-> kw, opts |-> opts, f |-> <<>>]
D(f) == [t |-> "data", kw |-> "", opts |-> <<>>, f |-> f]
Cm(txt) == [t |-> "comment", kw |-> txt, opts |-> <<>>, f |-> <<>>]
Blank == [t |-> "blank", kw |-> "", opts |-> <<>>, f |-> <<>>]

IsBlank(line) == line.t = "blank"                  \* not line.strip()
IsComment(line) == line.t = "comment"              \* line.strip().startswith('**')
StartsWithStar(line) == line.t \in {"kw", "comment"}   \* line.startswith('*')

(* line.split(','): the fields of a data line.  The tokens of a keyword    *)
(* line ('*Keyword', 'Key=Value') are never integers nor digit strings, so *)
(* such a line contributes no field that parses.                           *)
Split(line) == IF line.t = "data" THEN line.f ELSE <<"*">>

-----------------------------------------------------------------------------
(* scripts/parse.py *)

ConstraintKeywords ==
    {"coupling", "kinematic", "distributing", "rigid body", "mpc", "tie",
     "equation", "embedded region", "shell to solid coupling",
     "cyclic symmetry model"}

SectionKeywords ==
    {"solid section", "shell section", "beam section", "connector section",
     "membrane section", "surface section", "cohesive section",
     "gasket section", "truss section", "frame section"}

RoutingKeywords ==
    {"element", "nset", "elset", "material", "connector behavior"}
        \cup SectionKeywords \cup ConstraintKeywords

(* BLOCK_ROUTING[keyword] = (target dict, index key, operation) *)
BLOCK_ROUTING(keyword) ==
    CASE keyword = "element" -> <<"elements", "elset", "index">>
      [] keyword = "nset" -> <<"nsets", "nset", "index">>
      [] keyword = "elset" -> <<"elsets", "elset", "index">>
      [] keyword = "material" -> <<"materials", "name", "index">>
      [] keyword \in SectionKeywords -> <<"sections", "elset", "index">>
      [] keyword = "connector behavior" -> <<"connector_behaviors", "name", "index">>
      [] keyword \in ConstraintKeywords -> <<"constraints", "", "append">>

(* parse_keyword_line applied to a line that starts with one '*' *)
RECURSIVE ParseOptions(_)
ParseOptions(opts) ==
    IF opts = <<>> THEN <<>>
    ELSE LET rest == ParseOptions(SubSeq(opts, 1, Len(opts) - 1))
             last == opts[Len(opts)]
         IN DictSet(rest, Lower(last[1]), last[2])

parse_keyword_line(line) ==
    IF line.t # "kw" THEN [keyword |-> "", options |-> <<>>]
    ELSE [keyword |-> Lower(line.kw), options |-> ParseOptions(line.opts)]

(* class Block.  lineno is the position of the block's keyword line in the *)
(* source; the program does not store it, it identifies the definition.    *)
Block(keyword, options, lines, lineno) ==
    [keyword |-> keyword, options |-> options, lines |-> lines,
     nodes |-> {}, lineno |-> lineno]

EmptyResult ==
    [nodes |-> <<>>, elements |-> <<>>, materials |-> <<>>, sections |-> <<>>,
     constraints |-> <<>>, nsets |-> <<>>, elsets |-> <<>>,
     connector_behaviors |-> <<>>, others |-> <<>>]

(* variant: the first line of an id is kept *)
RECURSIVE SaveNodeLinesKeepFirst(_, _, _)
SaveNodeLinesKeepFirst(nodes, lines, i) ==
    IF i > Len(lines) THEN nodes
    ELSE LET line == lines[i]
             id == IntOf(Split(line)[1])
         IN IF IsBlank(line) \/ IsComment(line) \/ StartsWithStar(line) \/ id = {}
               \/ (id # {} /\ DictHas(nodes, CHOOSE n \in id : TRUE))
            THEN SaveNodeLinesKeepFirst(nodes, lines, i + 1)
            ELSE SaveNodeLinesKeepFirst(DictSet(nodes, CHOOSE n \in id : TRUE, line), lines, i + 1)

(* _save_node_block: lines[1:] in order, later ids overwrite *)
RECURSIVE SaveNodeLines(_, _, _)
SaveNodeLines(nodes, lines, i) ==
    IF i > Len(lines) THEN nodes
    ELSE LET line == lines[i]
             id == IntOf(Split(line)[1])
         IN IF IsBlank(line) \/ IsComment(line) \/ StartsWithStar(line) \/ id = {}
            THEN SaveNodeLines(nodes, lines, i + 1)
            ELSE SaveNodeLines(DictSet(nodes, CHOOSE n \in id : TRUE, line), lines, i + 1)

save_node_block(result, lines) ==
    [result EXCEPT !.nodes = SaveNodeLines(result.nodes, lines, 2)]

(* The node ids one element data line adds: the integers of the fields     *)
(* after the first, up to the first field int() rejects (the try wraps the *)
(* loop over the fields, so that field ends the line).                     *)
RECURSIVE ElementLineNodes(_, _)
ElementLineNodes(parts, j) ==
    IF j > Len(parts) \/ IntOf(parts[j]) = {} THEN {}
    ELSE IntOf(parts[j]) \cup ElementLineNodes(parts, j + 1)

RECURSIVE ElementNodes(_, _)
ElementNodes(lines, i) ==
    IF i > Len(lines) THEN {}
    ELSE LET line == lines[i]
         IN (IF IsBlank(line) \/ IsComment(line) \/ StartsWithStar(line)
             THEN {} ELSE ElementLineNodes(Split(line), 2))
            \cup ElementNodes(lines, i + 1)

(* _save_block *)
save_block(result, keyword, options, lines, lineno) ==
    LET block0 == Block(keyword, options, lines, lineno)
    IN IF keyword \notin RoutingKeywords
       THEN [result EXCEPT !.others = Append(@, block0)]
       ELSE LET route == BLOCK_ROUTING(keyword)
                block == IF keyword = "element"
                         THEN [block0 EXCEPT !.nodes = ElementNodes(lines, 2)]
                         ELSE block0
                key_value == Lower(OptGet(options, route[2]))
            IN IF route[3] = "append"
               THEN [result EXCEPT ![route[1]] = Append(@, block)]
               ELSE IF key_value # ""
                    THEN [result EXCEPT ![route[1]] = DictSet(@, key_value, block)]
                    ELSE result

(* the reader's loop state: result and the open block *)
ReaderInit ==
    [result |-> EmptyResult, current_keyword |-> "", current_options |-> <<>>,
     current_lines |-> <<>>, current_lineno |-> 0]

(* "save the previous block" *)
FlushBlock(st) ==
    IF st.current_keyword = "node"
    THEN save_node_block(st.result, st.current_lines)
    ELSE IF st.current_keyword # ""
         THEN save_block(st.result, st.current_keyword, st.current_options,
                         st.current_lines, st.current_lineno)
         ELSE st.result

(* variant: every keyword line opens a block, a keyword outside the        *)
(* routing table too                                                       *)
ReadLineOpensUnknown(st, line, i) ==
    LET kl == parse_keyword_line(line)
        accumulate == IF st.current_keyword # ""
                      THEN [st EXCEPT !.current_lines = Append(@, line)]
                      ELSE st
    IN IF IsBlank(line) \/ IsComment(line) THEN accumulate
       ELSE IF StartsWithStar(line)
            THEN [result |-> FlushBlock(st), current_keyword |-> kl.keyword,
                  current_options |-> kl.options, current_lines |-> <<line>>,
                  current_lineno |-> i]
            ELSE accumulate

(* one iteration of the loop over the lines of the file *)
ReadLine(st, line, i) ==
    LET kl == parse_keyword_line(line)
        accumulate == IF st.current_keyword # ""
                      THEN [st EXCEPT !.current_lines = Append(@, line)]
                      ELSE st
    IN IF IsBlank(line) \/ IsComment(line) THEN accumulate
       ELSE IF StartsWithStar(line)
               /\ (kl.keyword = "node" \/ kl.keyword \in RoutingKeywords)
            THEN [result |-> FlushBlock(st), current_keyword |-> kl.keyword,
                  current_options |-> kl.options, current_lines |-> <<line>>,
                  current_lineno |-> i]
            ELSE accumulate

RECURSIVE ReadLines(_, _, _)
ReadLines(st, lines, i) ==
    IF i > Len(lines) THEN st
    ELSE ReadLines(ReadLine(st, lines[i], i), lines, i + 1)

parse_inp_file(lines) == FlushBlock(ReadLines(ReaderInit, lines, 1))

-----------------------------------------------------------------------------
(* scripts/extractor.py *)

(* _get_nodes_from_data_lines *)
RECURSIVE DigitParts(_, _)
DigitParts(parts, j) ==
    IF j > Len(parts) THEN {}
    ELSE (IF IsDigit(parts[j]) THEN IntOf(parts[j]) ELSE {})
         \cup DigitParts(parts, j + 1)

RECURSIVE NodesFromLines(_, _)
NodesFromLines(lines, i) ==
    IF i > Len(lines) THEN {}
    ELSE (IF IsBlank(lines[i]) \/ IsComment(lines[i]) THEN {}
          ELSE DigitParts(Split(lines[i]), 1))
         \cup NodesFromLines(lines, i + 1)

get_nodes_from_data_lines(lines) == NodesFromLines(lines, 2)

(* variant: the elset test of lines 45-47 is missing *)
validate_constraint_no_elset(block, all_nodes, targets) ==
    LET ref_node == OptGet(block.options, "ref node")
    IN \/ IsDigit(ref_node) /\ IntOf(ref_node) \subseteq all_nodes
       \/ get_nodes_from_data_lines(block.lines) \cap all_nodes # {}

(* _validate_constraint *)
validate_constraint(block, all_nodes, targets) ==
    LET ref_node == OptGet(block.options, "ref node")
        elset == Lower(OptGet(block.options, "elset"))
    IN \/ IsDigit(ref_node) /\ IntOf(ref_node) \subseteq all_nodes
       \/ elset \in targets
       \/ get_nodes_from_data_lines(block.lines) \cap all_nodes # {}

(* the nsets the options 'ref node', 'tie nset', 'nset' of a block name *)
NamedNsets(block, parsed) ==
    {name \in {Lower(OptGet(block.options, key)) : key \in {"ref node", "tie nset", "nset"}} :
        name # "" /\ DictHas(parsed.nsets, name)}

(* the node ids _collect_constraint_dependencies adds for one block *)
ConstraintNodes(block, parsed) ==
    LET ref_node == OptGet(block.options, "ref node")
    IN (IF IsDigit(ref_node) THEN IntOf(ref_node) ELSE {})
          \cup get_nodes_from_data_lines(block.lines)
          \cup UNION {get_nodes_from_data_lines(DictGet(parsed.nsets, n).lines) :
                         n \in NamedNsets(block, parsed)}

(* _collect_constraint_dependencies, on the accumulators of the caller *)
collect_constraint_dependencies(block, parsed, acc) ==
    LET named == NamedNsets(block, parsed)
        elset_name == Lower(OptGet(block.options, "elset"))
    IN [acc EXCEPT
          !.all_nodes = @ \cup ConstraintNodes(block, parsed),
          !.required_nsets = @ \cup named,
          !.required_elsets = @ \cup (IF elset_name # "" /\ DictHas(parsed.elsets, elset_name)
                                      THEN {elset_name} ELSE {})]

(* the loop over parsed_data['constraints'] (step 2) *)
RECURSIVE SelectConstraints(_, _, _, _)
SelectConstraints(parsed, targets, acc, i) ==
    IF i > Len(parsed.constraints) THEN acc
    ELSE LET block == parsed.constraints[i]
         IN IF validate_constraint(block, acc.all_nodes, targets)
            THEN SelectConstraints(parsed, targets,
                    collect_constraint_dependencies(block, parsed,
                        [acc EXCEPT !.valid_constraints = Append(@, block)]),
                    i + 1)
            ELSE SelectConstraints(parsed, targets, acc, i + 1)

(* the entries of a dict whose key satisfies a test, in dict order *)
RECURSIVE DictFilter(_, _)
DictFilter(d, keys) ==
    IF d = <<>> THEN <<>>
    ELSE (IF Head(d)[1] \in keys THEN <<Head(d)>> ELSE <<>>) \o DictFilter(Tail(d), keys)

DictValues(d) == [i \in 1..Len(d) |-> d[i][2]]

(* sorted(set) *)
RECURSIVE Sorted(_)
Sorted(S) ==
    IF S = {} THEN <<>>
    ELSE LET m == CHOOSE x \in S : \A y \in S : x <= y
         IN <<m>> \o Sorted(S \ {m})

(* variant: the update of line 106 is missing *)
DirectNodesDropped(element_blocks) == {}

(* step 1: all_nodes_needed.update(block.nodes) for each selected block *)
DirectNodes(element_blocks) ==
    UNION {element_blocks[i][2].nodes : i \in 1..Len(element_blocks)}

(* extract_complete_model up to the call of _write_output_file: the        *)
(* arguments of that call                                                  *)
Resolve(parsed, targets_list) ==
    LET targets == {Lower(e) : e \in Range(targets_list)}
        element_blocks == DictFilter(parsed.elements, targets)
        direct == DirectNodes(element_blocks)
        acc == SelectConstraints(parsed, targets,
                  [valid_constraints |-> <<>>, required_nsets |-> {},
                   required_elsets |-> {}, all_nodes |-> direct], 1)
        section_blocks == DictFilter(parsed.sections, targets)
        referenced_materials ==
            {Lower(OptGet(section_blocks[i][2].options, "material")) :
                i \in 1..Len(section_blocks)} \ {""}
        referenced_behaviors ==
            {Lower(OptGet(section_blocks[i][2].options, "behavior")) :
                i \in 1..Len(section_blocks)} \ {""}
    IN [target_elsets_lower |-> targets,
        element_blocks |-> element_blocks,
        direct_nodes |-> direct,
        nodes_needed |-> acc.all_nodes,
        constraints |-> acc.valid_constraints,
        required_nsets |-> acc.required_nsets,
        required_elsets |-> acc.required_elsets,
        section_blocks |-> section_blocks,
        material_blocks |-> DictFilter(parsed.materials, referenced_materials),
        behavior_blocks |-> DictFilter(parsed.connector_behaviors, referenced_behaviors)]

NoClosure == Resolve(EmptyResult, <<>>)

(* _write_output_file, section by section *)
NotComment(line) == ~IsComment(line)
ElementDataLine(line) == ~IsBlank(line) /\ ~IsComment(line) /\ ~StartsWithStar(line)

WriteHeader(targets_list) ==
    << K("HEADING", <<>>),
       D(<<"Extracted model - ELSETs:">> \o Prefix(targets_list, 3)
           \o (IF Len(targets_list) > 3 THEN <<"more">> ELSE <<>>)),
       Cm("** Source"),
       Cm("**") >>

(* variant: the ids are not written in ascending order *)
NodeOrderDescending(nodes_needed) == Reverse(Sorted(nodes_needed))

NodeOrder(nodes_needed) == Sorted(nodes_needed)

(* variant: the node block is guarded like the later sections *)
WriteNodesIfAny(parsed, nodes_needed) ==
    LET present == SelectSeq(Sorted(nodes_needed), LAMBDA n : DictHas(parsed.nodes, n))
    IN IF nodes_needed = {} THEN <<>>
       ELSE <<K("NODE", <<>>)>> \o [i \in 1..Len(present) |-> DictGet(parsed.nodes, present[i])]

WriteNodes(parsed, nodes_needed) ==
    LET order == NodeOrder(nodes_needed)
        present == SelectSeq(order, LAMBDA n : DictHas(parsed.nodes, n))
    IN <<K("NODE", <<>>)>> \o [i \in 1..Len(present) |-> DictGet(parsed.nodes, present[i])]

WriteElementBlock(entry) ==
    LET type == OptGet(entry[2].options, "type")
    IN <<K("Element", << <<"Type", IF DictHas(entry[2].options, "type") THEN type ELSE "UNKNOWN">>,
                         <<"Elset", entry[1]>> >>)>>
       \o SelectSeq(Tail(entry[2].lines), ElementDataLine)

WriteElements(element_blocks) ==
    Flatten([i \in 1..Len(element_blocks) |-> WriteElementBlock(element_blocks[i])])

(* the blocks of a dict, comments stripped *)
WriteBlocks(d) ==
    Flatten([i \in 1..Len(d) |-> SelectSeq(d[i][2].lines, NotComment)])

WriteNsets(parsed, required_nsets) == WriteBlocks(DictFilter(parsed.nsets, required_nsets))
WriteElsets(parsed, required_elsets) == WriteBlocks(DictFilter(parsed.elsets, required_elsets))

WriteConstraints(constraints) ==
    Flatten([i \in 1..Len(constraints) |-> constraints[i].lines])

(* variant: the constraints are written before the sections *)
write_output_file_constraints_first(parsed, targets_list, c) ==
    WriteHeader(targets_list)
      \o WriteNodes(parsed, c.nodes_needed)
      \o WriteElements(c.element_blocks)
      \o WriteNsets(parsed, c.required_nsets)
      \o WriteElsets(parsed, c.required_elsets)
      \o WriteConstraints(c.constraints)
      \o WriteBlocks(c.section_blocks)
      \o WriteBlocks(c.material_blocks)
      \o WriteBlocks(c.behavior_blocks)

write_output_file(parsed, targets_list, c) ==
    WriteHeader(targets_list)
      \o WriteNodes(parsed, c.nodes_needed)
      \o WriteElements(c.element_blocks)
      \o WriteNsets(parsed, c.required_nsets)
      \o WriteElsets(parsed, c.required_elsets)
      \o WriteBlocks(c.section_blocks)
      \o WriteBlocks(c.material_blocks)
      \o WriteBlocks(c.behavior_blocks)
      \o WriteConstraints(c.constraints)

-----------------------------------------------------------------------------
(* The source documents of the model: the blocks of a base document, any   *)
(* selection of at most MaxBlocks of them, in base order or reversed.      *)

BaseBlocks ==
    << << K("Node", <<>>), D(<<"2", "0.0">>), D(<<"1", "0.0">>),
          D(<<"9", "0.0">>), D(<<"05", "0.0">>) >>,
       << K("Element", << <<"Type", "C3D8">>, <<"Elset", "WHEEL">> >>),
          D(<<"1", "1", "2", "7">>) >>,
       << K("Nset", << <<"Nset", "A">> >>), D(<<"9">>) >>,
       << K("Nset", << <<"nset", "B">> >>), D(<<"2">>) >>,
       << K("Nset", << <<"nset", "a">> >>), D(<<"5">>) >>,
       << K("Elset", << <<"Elset", "HUB">> >>), D(<<"1">>) >>,
       << K("Elset", << <<"elset", "wheel">> >>), D(<<"1">>) >>,
       << K("Tie", << <<"Nset", "A">>, <<"Tie Nset", "b">>, <<"elset", "Wheel">> >>),
          Cm("** K1"), D(<<"1", "5">>) >>,
       << K("Tie", << <<"name", "K2">> >>), D(<<"5", "6">>) >>,
       << K("Coupling", << <<"Elset", "Hub">>, <<"Ref Node", "9">> >>) >>,
       << K("Connector Section", << <<"Elset", "wheel">>, <<"Material", "Steel">>,
                                    <<"Behavior", "BEH">> >>) >>,
       << K("Material", << <<"Name", "STEEL">> >>), K("Elastic", <<>>),
          D(<<"210000", "0.3">>) >>,
       << K("Connector Behavior", << <<"Name", "beh">> >>) >> >>

NumBlocks == Len(BaseBlocks)

(* the blocks of `blocks` whose index is in S, in order *)
RECURSIVE Select(_, _, _)
Select(blocks, S, i) ==
    IF i > Len(blocks) THEN <<>>
    ELSE (IF i \in S THEN <<blocks[i]>> ELSE <<>>) \o Select(blocks, S, i + 1)

Documents ==
    {Flatten(Select(order, S, 1)) :
        order \in {BaseBlocks, Reverse(BaseBlocks)},
        S \in {T \in SUBSET (1..NumBlocks) : Cardinality(T) <= MaxBlocks}}

GroupNames == {"WHEEL", "Hub", "NOPE"}

TargetLists == UNION {[1..n -> GroupNames] : n \in 1..MaxTargets}

-----------------------------------------------------------------------------
(* scripts/extract.py *)

(* the keys of the dict parse_inp_file returns *)
NineKeys ==
    {"nodes", "elements", "materials", "sections", "constraints", "nsets",
     "elsets", "connector_behaviors", "others"}

(* The cache artifact.  kind: "none" no file; "garbage" a file pickle.load *)
(* raises on; "notdict" a pickled object that is not a dict; "dict" a      *)
(* pickled dict with the keys `keys` (data holds their values).            *)
NoCache == [kind |-> "none", keys |-> {}, data |-> EmptyResult, mtime |-> 0]

(* variant: a cache as old as the source is trusted *)
CacheTrustedNonStrict(cache_mtime, src_mtime) == cache_mtime >= src_mtime

(* line 30: if cache_mtime > source_mtime *)
CacheTrusted(cache_mtime, src_mtime) == cache_mtime > src_mtime

(* line 33: isinstance(data, dict) and 'elements' in data and 'nodes' in data *)
CacheAccepted(c) == c.kind = "dict" /\ {"elements", "nodes"} \subseteq c.keys

(* load_or_parse returns the cached object *)
CacheHit(c, src_mtime) ==
    /\ c.kind # "none"                          \* os.path.exists(cache_file)
    /\ CacheTrusted(c.mtime, src_mtime)
    /\ c.kind # "garbage"                       \* pickle.load raises: except, pass
    /\ CacheAccepted(c)

(* the cache file after "with open(cache_file, 'wb')": written, left alone *)
(* when open fails, truncated when pickle.dump fails                       *)
CacheAfterWrite(c, parsed, now, write) ==
    CASE write = "ok" -> [kind |-> "dict", keys |-> NineKeys, data |-> parsed, mtime |-> now]
      [] write = "open_fails" -> c
      [] write = "dump_fails" -> [kind |-> "garbage", keys |-> {}, data |-> EmptyResult, mtime |-> now]

(* load_or_parse(source_inp, parse_inp_file): the returned object (its     *)
(* keys and their values) and the cache file afterwards                    *)
load_or_parse(lines, src_mtime, c, now, write) ==
    IF CacheHit(c, src_mtime)
    THEN [hit |-> TRUE, keys |-> c.keys, data |-> c.data, cache |-> c]
    ELSE [hit |-> FALSE, keys |-> NineKeys, data |-> parse_inp_file(lines),
          cache |-> CacheAfterWrite(c, parse_inp_file(lines), now, write)]

(* extract_complete_model raises KeyError: the dict lacks a key the        *)
(* resolver reads (lines 103, 119, 142, 155, 157; 70 and 77 for a selected *)
(* constraint that names an nset or an elset; 199 for a needed node)       *)
HasNsetOption(block) ==
    \E key \in {"ref node", "tie nset", "nset"} : OptGet(block.options, key) # ""

ExtractRaises(keys, data, targets_list) ==
    LET c == Resolve(data, targets_list)
    IN \/ {"elements", "constraints", "sections", "materials", "connector_behaviors"}
              \ keys # {}
       \/ "nsets" \notin keys
            /\ \E i \in 1..Len(c.constraints) : HasNsetOption(c.constraints[i])
       \/ "elsets" \notin keys
            /\ \E i \in 1..Len(c.constraints) : OptGet(c.constraints[i].options, "elset") # ""
       \/ "nodes" \notin keys /\ c.nodes_needed # {}

-----------------------------------------------------------------------------
(* Initial values of the parts a specification does not use *)

NoRun == [rc |-> 0, hit |-> FALSE, keys |-> {}]

ExtractIdle ==
    /\ pc = "start" /\ parsed_data = EmptyResult /\ target_elsets = <<>>
    /\ closure = NoClosure /\ output = <<>>
CacheIdle == source_mtime = 0 /\ cache = NoCache /\ clock = 0 /\ run = NoRun
BatchIdle ==
    /\ systems = <<>> /\ bidx = 1 /\ attempts = <<>> /\ reports = <<>> /\ bpc = "start"

-----------------------------------------------------------------------------
(* One extraction: tokenize the source, then extract the requested groups  *)

Init ==
    /\ source \in Documents
    /\ ExtractIdle /\ CacheIdle /\ BatchIdle

(* parse_inp_file(args.input) *)
ParseInpFile ==
    /\ pc = "start"
    /\ parsed_data' = parse_inp_file(source)
    /\ pc' = "parsed"
    /\ UNCHANGED <<source, target_elsets, closure, output, cacheVars, batchVars>>

(* extract_complete_model(parsed_data, target_elsets, output_file, source) *)
ExtractCompleteModel ==
    /\ pc = "parsed"
    /\ \E targets \in TargetLists :
          /\ target_elsets' = targets
          /\ closure' = Resolve(parsed_data, targets)
          /\ output' = write_output_file(parsed_data, targets, Resolve(parsed_data, targets))
    /\ pc' = "done"
    /\ UNCHANGED <<source, parsed_data, cacheVars, batchVars>>

Next == ParseInpFile \/ ExtractCompleteModel

Spec == Init /\ [][Next]_vars

-----------------------------------------------------------------------------
(* Reading the output back, as parse_inp_file reads a document: a line     *)
(* belongs to the last keyword line before it whose keyword is 'node' or   *)
(* in BLOCK_ROUTING; the lines before the first such line are the header.  *)

SectionRank(keyword) ==
    CASE keyword = "node" -> 1
      [] keyword = "element" -> 2
      [] keyword = "nset" -> 3
      [] keyword = "elset" -> 4
      [] keyword \in SectionKeywords -> 5
      [] keyword = "material" -> 6
      [] keyword = "connector behavior" -> 7
      [] keyword \in ConstraintKeywords -> 8

OpensBlock(line) ==
    /\ line.t = "kw"
    /\ Lower(line.kw) \in RoutingKeywords \cup {"node"}

RECURSIVE RanksFrom(_, _, _)
RanksFrom(out, i, cur) ==
    IF i > Len(out) THEN <<>>
    ELSE LET r == IF OpensBlock(out[i]) THEN SectionRank(Lower(out[i].kw)) ELSE cur
         IN <<r>> \o RanksFrom(out, i + 1, r)

OutputRanks == RanksFrom(output, 1, 0)

(* the node ids of the lines of the output node block(s), in output order *)
IsNodeLine(line) ==
    ~IsBlank(line) /\ ~IsComment(line) /\ ~StartsWithStar(line) /\ IntOf(Split(line)[1]) # {}

OutputNodeLines ==
    LET ranks == OutputRanks
    IN SelectSeq([i \in 1..Len(output) |-> IF ranks[i] = 1 THEN output[i] ELSE Blank],
                 IsNodeLine)

OutputNodeIds ==
    LET lines == OutputNodeLines
    IN [i \in 1..Len(lines) |-> CHOOSE n \in IntOf(Split(lines[i])[1]) : TRUE]

Occurrences(seq, x) == Cardinality({i \in 1..Len(seq) : seq[i] = x})

(* seq occurs in the output as consecutive lines *)
WrittenTogether(seq) ==
    \E k \in 0..(Len(output) - Len(seq)) : SubSeq(output, k + 1, k + Len(seq)) = seq

SelectedElementBlocks == DictValues(closure.element_blocks)
TargetsLower == {Lower(e) : e \in Range(target_elsets)}
NoElementMatches == TargetsLower \cap DictKeys(parsed_data.elements) = {}

-----------------------------------------------------------------------------
(* Properties of one extraction (specification Spec) *)

(* C1, as claimed: after extract_complete_model every node id in the node  *)
(* set of every selected element block appears exactly once in the output  *)
(* node block.                                                             *)
C1_EveryNodeOnce ==
    pc = "done" =>
        LET ids == OutputNodeIds
        IN \A i \in 1..Len(SelectedElementBlocks) :
              \A n \in SelectedElementBlocks[i].nodes :
                  Occurrences(ids, n) = 1

(* C1, amended: every node id in the node set of every selected element    *)
(* block that has a node line in the parsed document appears exactly once  *)
(* in the output node block; an id without a node line does not appear.    *)
C1_EveryDefinedNodeOnce ==
    pc = "done" =>
        LET ids == OutputNodeIds
        IN \A i \in 1..Len(SelectedElementBlocks) :
              \A n \in SelectedElementBlocks[i].nodes :
                  Occurrences(ids, n) = IF DictHas(parsed_data.nodes, n) THEN 1 ELSE 0

C1_Witness ==
    /\ pc = "done"
    /\ \E i \in 1..Len(SelectedElementBlocks) :
          /\ \E n \in SelectedElementBlocks[i].nodes :
                DictHas(parsed_data.nodes, n) /\ Occurrences(OutputNodeIds, n) = 1
          /\ \E m \in SelectedElementBlocks[i].nodes : ~DictHas(parsed_data.nodes, m)

(* C2, as claimed: every selected constraint passes the relevance test     *)
(* against the requested names and the node set of the directly selected   *)
(* element blocks alone; ids gathered from another constraint never make a *)
(* constraint relevant.                                                    *)
C2_SinglePass ==
    pc = "done" =>
        \A i \in 1..Len(closure.constraints) :
            validate_constraint(closure.constraints[i], closure.direct_nodes,
                                closure.target_elsets_lower)

(* C3, as claimed: among the emitted required nsets, among the emitted     *)
(* required elsets and among the emitted constraints, a block that         *)
(* precedes another in the source precedes it in the output.               *)
PositionInOutput(block) ==
    CHOOSE k \in 1..Len(output) :
        /\ output[k] = block.lines[1]
        /\ \A j \in 1..(k - 1) : output[j] # block.lines[1]

SourceOrderKept(blocks) ==
    \A i, j \in 1..Len(blocks) :
        blocks[i].lineno < blocks[j].lineno
            => PositionInOutput(blocks[i]) < PositionInOutput(blocks[j])

EmittedNsets == DictValues(DictFilter(parsed_data.nsets, closure.required_nsets))
EmittedElsets == DictValues(DictFilter(parsed_data.elsets, closure.required_elsets))

C3_OrderPreserved ==
    pc = "done" =>
        /\ SourceOrderKept(EmittedNsets)
        /\ SourceOrderKept(EmittedElsets)
        /\ SourceOrderKept(closure.constraints)

(* C4: the node ids of the lines of the output node block are strictly     *)
(* ascending.                                                              *)
C4_SortInvariant ==
    LET ids == OutputNodeIds
    IN \A i, j \in 1..Len(ids) : i < j => ids[i] < ids[j]

C4_Witness ==
    /\ pc = "done"
    /\ Len(OutputNodeIds) >= 4
    /\ closure.direct_nodes # {}
    /\ closure.nodes_needed # closure.direct_nodes

(* C5: every constraint whose elset option equals, case-insensitively, a   *)
(* requested name is among the selected constraints and its lines are      *)
(* written to the output.                                                  *)
NamesRequestedElset(block) ==
    /\ DictHas(block.options, "elset")
    /\ Lower(DictGet(block.options, "elset")) \in TargetsLower

C5_InclusionByGroup ==
    pc = "done" =>
        \A i \in 1..Len(parsed_data.constraints) :
            NamesRequestedElset(parsed_data.constraints[i])
                => /\ parsed_data.constraints[i] \in Range(closure.constraints)
                   /\ WrittenTogether(parsed_data.constraints[i].lines)
                   /\ OutputRanks[PositionInOutput(parsed_data.constraints[i])] = 8

(* a constraint that is selected through its elset option only, for a      *)
(* group without element block                                             *)
C5_Witness ==
    /\ pc = "done"
    /\ closure.direct_nodes # {}
    /\ LET block == parsed_data.constraints[1]
       IN /\ parsed_data.constraints # <<>>
          /\ NamesRequestedElset(block)
          /\ ~DictHas(parsed_data.elements, Lower(OptGet(block.options, "elset")))
          /\ ~validate_constraint_no_elset(block, closure.direct_nodes, TargetsLower)
          /\ block \in Range(closure.constraints)

(* C6: in the output the sections appear in the order header, node block,  *)
(* element blocks, nsets, elsets, sections, materials, connector           *)
(* behaviors, constraints; there is one node block.                        *)
C6_SectionOrder ==
    LET ranks == OutputRanks
    IN /\ \A i, j \in 1..Len(output) : i < j => ranks[i] <= ranks[j]
       /\ pc = "done" =>
             /\ ranks[1] = 0
             /\ Cardinality({i \in 1..Len(output) : OpensBlock(output[i]) /\ ranks[i] = 1}) = 1

C6_Witness ==
    /\ pc = "done"
    /\ Range(OutputRanks) = 0..8

(* C10, as claimed: when no requested name matches an element block the    *)
(* output has the header and a node block and no element block, and the    *)
(* requested names contribute no elements and no nodes to the closure.     *)
EmptyOfElements ==
    /\ output[1] = K("HEADING", <<>>)
    /\ K("NODE", <<>>) \in Range(output)
    /\ 2 \notin Range(OutputRanks)
    /\ closure.element_blocks = <<>>

C10_NothingContributed ==
    (pc = "done" /\ NoElementMatches) =>
        /\ EmptyOfElements
        /\ closure.nodes_needed = {}

(* C10, amended: when no requested name matches an element block the       *)
(* output has the header and a node block and no element block; the        *)
(* requested names contribute no elements and no nodes of elements, the    *)
(* closure holds exactly the node ids gathered for the constraints that    *)
(* are selected (through their elset option).                              *)
C10_EmptyResult ==
    (pc = "done" /\ NoElementMatches) =>
        /\ EmptyOfElements
        /\ closure.direct_nodes = {}
        /\ closure.nodes_needed =
              UNION {ConstraintNodes(closure.constraints[i], parsed_data) :
                        i \in 1..Len(closure.constraints)}

C10_Witness ==
    /\ pc = "done"
    /\ NoElementMatches
    /\ parsed_data.elements # <<>>
    /\ closure.nodes_needed # {}
    /\ OutputNodeIds # <<>>

-----------------------------------------------------------------------------
(* Runs of extract.main on a source document that is edited between runs.  *)
(* pc = "start": no run in progress; pc = "done": main has returned.       *)

CacheDocuments ==
    {Flatten(Select(BaseBlocks, S, 1)) : S \in {{1, 2, 9}, {1, 2, 3, 8, 10}}}

CacheTargets == {<<"WHEEL", "Hub">>}

InitCache ==
    /\ source \in CacheDocuments
    /\ ExtractIdle /\ CacheIdle /\ BatchIdle

Tick ==
    /\ clock < MaxClock
    /\ clock' = clock + 1
    /\ UNCHANGED <<extractVars, source_mtime, cache, run, batchVars>>

(* the user saves another version of the source document *)
EditSource ==
    /\ pc = "start"
    /\ \E lines \in CacheDocuments \ {source} : source' = lines
    /\ source_mtime' = clock
    /\ UNCHANGED <<pc, parsed_data, target_elsets, closure, output, cache, clock, run, batchVars>>

(* main() of extract.py, lines 82-110 *)
Main ==
    /\ pc = "start"
    /\ \E targets \in CacheTargets, no_cache \in BOOLEAN,
          write \in {"ok", "open_fails", "dump_fails"} :
          LET loaded == IF no_cache
                        THEN [hit |-> FALSE, keys |-> NineKeys,
                              data |-> parse_inp_file(source), cache |-> cache]
                        ELSE load_or_parse(source, source_mtime, cache, clock, write)
              raises == ExtractRaises(loaded.keys, loaded.data, targets)
          IN /\ parsed_data' = loaded.data
             /\ cache' = loaded.cache
             /\ target_elsets' = targets
             /\ closure' = IF raises THEN NoClosure ELSE Resolve(loaded.data, targets)
             /\ output' = IF raises THEN output
                          ELSE write_output_file(loaded.data, targets, Resolve(loaded.data, targets))
             /\ run' = [rc |-> IF raises THEN 1 ELSE 0, hit |-> loaded.hit, keys |-> loaded.keys]
    /\ pc' = "done"
    /\ UNCHANGED <<source, source_mtime, clock, batchVars>>

(* the process has exited; the next invocation can start *)
Exit ==
    /\ pc = "done"
    /\ pc' = "start"
    /\ UNCHANGED <<source, parsed_data, target_elsets, closure, output, cacheVars, batchVars>>

NextCache == Tick \/ EditSource \/ Main \/ Exit

SpecCache == InitCache /\ [][NextCache]_vars

(* the cache file is replaced from outside by something load_or_parse did  *)
(* not write: an unreadable file, a pickled non-dict, a dict that holds    *)
(* only some of the collections of the source                              *)
ForeignKeySets ==
    {{"elements", "nodes"}, NineKeys \ {"nsets"}, {"nodes"}}

Restrict(data, keys) == [k \in NineKeys |-> IF k \in keys THEN data[k] ELSE <<>>]

ReplaceCache ==
    /\ pc = "start"
    /\ \/ \E kind \in {"garbage", "notdict"} :
             cache' = [kind |-> kind, keys |-> {}, data |-> EmptyResult, mtime |-> clock]
       \/ \E keys \in ForeignKeySets :
             cache' = [kind |-> "dict", keys |-> keys,
                       data |-> Restrict(parse_inp_file(source), keys), mtime |-> clock]
    /\ UNCHANGED <<extractVars, source_mtime, clock, run, batchVars>>

NextCacheForeign == Tick \/ EditSource \/ Main \/ Exit \/ ReplaceCache

SpecCacheForeign == InitCache /\ [][NextCacheForeign]_vars

(* C7: once the source has been modified after the cache was written, the  *)
(* next run does not return the cached snapshot: the cache is returned     *)
(* only when its modification time is strictly newer than the source's,    *)
(* and what a run returns is the tokenization of the current source.       *)
C7_CacheInvalidation ==
    pc = "done" =>
        /\ run.hit => cache.mtime > source_mtime
        /\ parsed_data = parse_inp_file(source)
        /\ run.rc = 0

(* a run that found a snapshot of an earlier version of the source, not    *)
(* newer than the source, and re-tokenized (the rewrite of the cache       *)
(* failed, so the stale snapshot is still there)                           *)
C7_Witness ==
    /\ pc = "done"
    /\ ~run.hit
    /\ cache.kind = "dict"
    /\ cache.data # parse_inp_file(source)
    /\ cache.mtime <= source_mtime
    /\ parsed_data = parse_inp_file(source)

(* C8, as claimed: a cache artifact that is stale, corrupt, unreadable or  *)
(* not a complete parsed document is never fatal: the run returns the      *)
(* tokenization of the source, a complete document, and main succeeds.     *)
C8_RecoverableCache ==
    pc = "done" =>
        /\ run.rc = 0
        /\ run.keys = NineKeys

-----------------------------------------------------------------------------
(* batch.py: main().  SYSTEMS is a dict, modelled as the sequence of its   *)
(* values (the entry's name is its position).                              *)

ElsetLists == {<<>>, <<"WHEEL">>, <<"WHEEL", "Hub">>}

Configurations == UNION {[1..n -> ElsetLists] : n \in 0..MaxEntries}

(* what subprocess.run can do: exit code 0, a non-zero exit code,          *)
(* TimeoutExpired, any other exception                                     *)
Outcomes == {"ok", "failed", "timeout", "error"}

InitBatch ==
    /\ source = <<>>
    /\ ExtractIdle /\ CacheIdle
    /\ systems \in Configurations
    /\ bidx = 1 /\ attempts = <<>> /\ reports = <<>> /\ bpc = "start"

(* lines 36-58: the source or elsets.py is missing, or the import fails *)
BatchAbort ==
    /\ bpc = "start"
    /\ bpc' = "failed"
    /\ UNCHANGED <<extractVars, cacheVars, systems, bidx, attempts, reports>>

(* lines 60-70 *)
BatchStart ==
    /\ bpc = "start"
    /\ bpc' = "loop"
    /\ UNCHANGED <<extractVars, cacheVars, systems, bidx, attempts, reports>>

(* variant: a failing entry ends the loop *)
AfterEntryStopOnFailure(i, n, outcome) == IF outcome = "ok" THEN i + 1 ELSE n + 1

(* the entry the for statement of line 71 takes after entry i of n: no     *)
(* branch of the body leaves the loop                                      *)
AfterEntry(i, n, outcome) == i + 1

(* lines 72-74: an entry without group names is skipped *)
BatchSkip ==
    /\ bpc = "loop" /\ bidx <= Len(systems)
    /\ systems[bidx] = <<>>
    /\ reports' = Append(reports, <<bidx, "skipped">>)
    /\ bidx' = AfterEntry(bidx, Len(systems), "ok")
    /\ UNCHANGED <<extractVars, cacheVars, systems, attempts, bpc>>

(* lines 76-106: the extractor is launched for the entry *)
BatchExtract ==
    /\ bpc = "loop" /\ bidx <= Len(systems)
    /\ systems[bidx] # <<>>
    /\ attempts' = Append(attempts, bidx)
    /\ \E outcome \in Outcomes :
          /\ reports' = Append(reports, <<bidx, outcome>>)
          /\ bidx' = AfterEntry(bidx, Len(systems), outcome)
    /\ UNCHANGED <<extractVars, cacheVars, systems, bpc>>

(* lines 108-109 *)
BatchFinish ==
    /\ bpc = "loop" /\ bidx > Len(systems)
    /\ bpc' = "done"
    /\ UNCHANGED <<extractVars, cacheVars, systems, bidx, attempts, reports>>

NextBatch == BatchAbort \/ BatchStart \/ BatchSkip \/ BatchExtract \/ BatchFinish

(* the driver is sequential code and subprocess.run returns or raises     *)
(* within its timeout, so a step that can be taken is taken               *)
SpecBatch == InitBatch /\ [][NextBatch]_vars /\ WF_vars(NextBatch)

(* the entries with a non-empty group list among the first n, in order *)
NonEmptyEntries(n) == SelectSeq([i \in 1..n |-> i], LAMBDA i : systems[i] # <<>>)

Isolated ==
    /\ bpc \in {"loop", "done"} =>
          /\ bidx \in 1..(Len(systems) + 1)
          /\ attempts = NonEmptyEntries(bidx - 1)
          /\ Len(reports) = bidx - 1
          /\ \A i \in 1..Len(reports) : reports[i][1] = i
    /\ bpc = "done" => attempts = NonEmptyEntries(Len(systems))
    /\ bpc \in {"start", "failed"} => attempts = <<>>

(* C9: the extractor is launched once per entry with a non-empty group     *)
(* list, in configuration order; a failed entry is reported and the later  *)
(* entries are still attempted; once in the loop, the driver reaches the   *)
(* completion step, after the last entry.                                  *)
C9_FailureIsolation ==
    /\ []Isolated
    /\ (bpc = "loop") ~> (bpc = "done")

(* a batch that completed although an entry exited non-zero and a later    *)
(* one timed out, with an entry attempted after both                       *)
C9_Witness ==
    /\ bpc = "done"
    /\ Len(reports) = 3
    /\ reports[1][2] = "failed"
    /\ reports[2][2] \in {"timeout", "error"}
    /\ reports[3][2] = "ok"
    /\ attempts = <<1, 2, 3>>

-----------------------------------------------------------------------------
(* The tokenizer alone, on every document of at most MaxLines lines drawn  *)
(* from a set of lines: block openers, a keyword outside the routing       *)
(* table, data lines with fields int() accepts or rejects, a comment.      *)

SourceLines ==
    { K("Node", <<>>),
      K("Element", << <<"Type", "C3D8">>, <<"Elset", "WHEEL">> >>),
      K("Material", << <<"Name", "STEEL">> >>),
      K("Elastic", <<>>),
      D(<<"1", "2", "x", "3">>),
      D(<<"1", "9">>),
      D(<<"0", "-1", "2">>),
      D(<<"-1", "7">>),
      D(<<"x", "1">>),
      Cm("** c") }

LineDocuments == UNION {[1..n -> SourceLines] : n \in 0..MaxLines}

InitParse ==
    /\ source \in LineDocuments
    /\ ExtractIdle /\ CacheIdle /\ BatchIdle

NextParse == ParseInpFile

SpecParse == InitParse /\ [][NextParse]_vars

(* a line that starts with a single '*' and names a keyword that is        *)
(* neither 'node' nor in BLOCK_ROUTING                                     *)
UnknownKeywordLine(line) == line.t = "kw" /\ ~OpensBlock(line)

UnknownKeywordPositions == {i \in 1..Len(source) : UnknownKeywordLine(source[i])}

(* every Block the parsed document holds *)
StoredBlocks ==
    UNION {Range(DictValues(parsed_data[c])) :
              c \in {"elements", "materials", "sections", "nsets", "elsets",
                     "connector_behaviors"}}
        \cup Range(parsed_data.constraints) \cup Range(parsed_data.others)

(* the first line after line i that opens a block, or the end of the file *)
NextOpening(i) ==
    LET later == {j \in (i + 1)..Len(source) : OpensBlock(source[j])}
    IN IF later = {} THEN Len(source) + 1
       ELSE CHOOSE j \in later : \A k \in later : j <= k

IntegerFieldsAfterFirst(lines) ==
    UNION {UNION {IntOf(Split(lines[i])[j]) : j \in 2..Len(Split(lines[i]))} :
              i \in {k \in 2..Len(lines) :
                        ~IsBlank(lines[k]) /\ ~IsComment(lines[k]) /\ ~StartsWithStar(lines[k])}}

C12_ElementNodeSet ==
    pc = "parsed" =>
        \A i \in 1..Len(parsed_data.elements) :
            parsed_data.elements[i][2].nodes
                = IntegerFieldsAfterFirst(parsed_data.elements[i][2].lines)

(* the lines of the source that belong to a node block and whose leading   *)
(* field int() accepts, and the id of such a line                          *)
NodeLinePositions ==
    LET ranks == RanksFrom(source, 1, 0)
    IN {i \in 1..Len(source) : ranks[i] = 1 /\ IsNodeLine(source[i])}

IdAt(i) == CHOOSE n \in IntOf(Split(source[i])[1]) : TRUE

(* the data lines of node blocks whose leading field int() rejects *)
RejectedNodeLines ==
    LET ranks == RanksFrom(source, 1, 0)
    IN {source[i] : i \in {k \in 1..Len(source) :
                              /\ ranks[k] = 1 /\ source[k].t = "data"
                              /\ IntOf(Split(source[k])[1]) = {}}}

KeysOccurOnce ==
    \A a, b \in 1..Len(parsed_data.nodes) :
        a # b => parsed_data.nodes[a][1] # parsed_data.nodes[b][1]

LastLineWins ==
    \A a \in 1..Len(parsed_data.nodes) :
        LET same == {i \in NodeLinePositions : IdAt(i) = parsed_data.nodes[a][1]}
        IN /\ same # {}
           /\ parsed_data.nodes[a][2] = source[CHOOSE i \in same : \A j \in same : j <= i]

(* C13, as claimed: after parse_inp_file every key of `nodes` is a         *)
(* positive integer and occurs once, the last node line of an id is the    *)
(* one stored, and a line whose leading field is zero, negative or         *)
(* non-numeric creates no entry.                                           *)
C13_PositiveUniqueIds ==
    pc = "parsed" =>
        /\ \A a \in 1..Len(parsed_data.nodes) : parsed_data.nodes[a][1] > 0
        /\ KeysOccurOnce
        /\ LastLineWins
        /\ DictKeys(parsed_data.nodes) = {IdAt(i) : i \in {k \in NodeLinePositions : IdAt(k) > 0}}

(* C13, amended: after parse_inp_file every key of `nodes` is an integer   *)
(* (zero and negative ids included: every leading field int() accepts      *)
(* creates an entry) and occurs once, the last node line of an id is the   *)
(* one stored, and a line whose leading field is non-numeric creates no    *)
(* entry.                                                                  *)
C13_UniqueIntegerIds ==
    pc = "parsed" =>
        /\ KeysOccurOnce
        /\ LastLineWins
        /\ DictKeys(parsed_data.nodes) = {IdAt(i) : i \in NodeLinePositions}
        /\ \A a \in 1..Len(parsed_data.nodes) :
              /\ parsed_data.nodes[a][1] \in Int
              /\ parsed_data.nodes[a][2] \notin RejectedNodeLines

(* an id given by two different node lines, and a key that is not positive *)
C13_Witness ==
    /\ pc = "parsed"
    /\ \E i, j \in NodeLinePositions :
          i < j /\ IdAt(i) = IdAt(j) /\ source[i] # source[j]
    /\ \E a \in 1..Len(parsed_data.nodes) : parsed_data.nodes[a][1] <= 0

====
